---- MODULE Spec2Model ----
(***************************************************************************)
(* Model of Server.Run (cli/daemon/run.go): the handler of one streaming   *)
(* "run" request of the daemon.  Every session executes Run on its own     *)
(* goroutine; the sessions share the server mutex s.mu, the map s.streams  *)
(* and the daemon process itself.                                          *)
(***************************************************************************)
EXTENDS Integers, Sequences, FiniteSets, TLC

\* Number of concurrent Run invocations.
NumSessions == 2

Sessions == 1 .. NumSessions
NoSession == 0
NoRun == 0

VARIABLES
    pc,          \* pc[s]: the statement of Run session s executes next
    stream,      \* stream[s]: the messages sent on the session's stream, in order
    calls,       \* calls[s]: the fallible calls Run has made, in order
    failedAt,    \* failedAt[s]: the call whose error ended the session
    defers,      \* defers[s]: Run's stack of deferred calls
    acquired,    \* acquired[s]: the resources Run has obtained
    closes,      \* closes[s][r]: how often resource r was closed / marked done
    newVer,      \* newVer[s]: the result of s.availableUpdate()
    upgradeErr,  \* upgradeErr[s]: the outcome of newVer.DoUpgrade
    runInstance, \* runInstance[s]: the ID of the run mgr.Start returned
    done,        \* done[s]: runInstance.Done() is closed
    mu,          \* s.mu: the session holding it, or NoSession
    streams,     \* s.streams: run ID -> the streamLog (named by its session)
    nextID,      \* the next run ID the run manager hands out
    exitedBy,    \* the session whose os.Exit ended the daemon, or NoSession
    wpc,         \* wpc[s]: position of the first-run goroutine
    woken,       \* woken[s]: the select case that woke the goroutine
    events,      \* events[s]: completion signal and timer, in firing order
    apc,         \* position within the announcement (SpecAnnounce)
    ain,         \* its inputs: namespace, secrets, debug mode, update, ...
    externalDBs, \* the map externalDBs: database name -> connection string
    warned,      \* the secret keys for which log.Warn was called
    ranged,      \* the keys of externalDBs the range loop has visited
    aout,        \* the lines written to stderr, in order
    bpc,         \* position within the bind of the port and the display address
    req,         \* the RunRequest: [ListenAddr]
    listenAddr,  \* the local listenAddr
    ln,          \* the address the listener ln is bound to, or NoListener
    bindErr,     \* the error of net.Listen
    displayListenAddr, \* the local displayListenAddr
    bout,        \* the messages of the bind on the stream, in order
    bcalls       \* the calls the bind made, with their arguments, in order

coordVars == <<pc, stream, calls, failedAt, defers, acquired, closes, newVer,
               upgradeErr, runInstance, done, mu, streams, nextID, exitedBy>>
watchVars == <<wpc, woken, events>>
annVars == <<apc, ain, externalDBs, warned, ranged, aout>>
bindVars == <<bpc, req, listenAddr, ln, bindErr, displayListenAddr, bout, bcalls>>
vars == <<coordVars, watchVars, annVars, bindVars>>

----------------------------------------------------------------------------
\* Messages of the streaming output protocol (daemonpb.CommandMessage).

\* CommandMessage_Output carrying stderr text; text names what was printed.
Output(text) == [kind |-> "output", text |-> text, code |-> 0]

\* CommandMessage_Exit
Exit(code) == [kind |-> "exit", text |-> "", code |-> code]

\* fmt.Fprint*(stderr, ...): stderr is slog.Stderr(false), it sends on stream.
Fprint(s, texts) ==
    stream[s] \o [i \in 1 .. Len(texts) |-> Output(texts[i])]

\* sendExit whose stream.Send is lost.
sendExitDropped(msgs, code) == msgs

\* sendExit(code) after the given writes.
sendExit(msgs, code) == Append(msgs, Exit(code))

Exits(s) == SelectSeq(stream[s], LAMBDA m : m.kind = "exit")

----------------------------------------------------------------------------
\* Resources and deferred calls.

Resources == {"tracer", "ln", "ops", "runInstance"}

RECURSIVE Count(_, _)
Count(seq, x) ==
    IF seq = <<>> THEN 0
    ELSE (IF Head(seq) = x THEN 1 ELSE 0) + Count(Tail(seq), x)

\* A return of Run on which no deferred call runs.
RunDefersNone(s) == closes

\* A return of Run: the deferred calls run, each closing its resource.
RunDefers(s) ==
    [closes EXCEPT ![s] = [r \in Resources |-> closes[s][r] + Count(defers[s], r)]]

\* The steps of Run in program order, named by the call that can fail.
StepOrder == <<"LoadConfig", "BeginTracing", "BindPort", "ResolveApp",
               "ResolveNamespace", "CheckUpgrade", "StartRun">>

StepIndex(step) == CHOOSE i \in 1 .. Len(StepOrder) : StepOrder[i] = step

Alive == exitedBy = NoSession

----------------------------------------------------------------------------
\* s.availableUpdate(): nil or a *update.LatestVersion.
Nil == [present |-> FALSE, ForceUpgrade |-> FALSE, SecurityNotes |-> FALSE]

VersionUpdates ==
    {Nil} \cup
    { [present |-> TRUE, ForceUpgrade |-> f, SecurityNotes |-> n] :
        f \in BOOLEAN, n \in BOOLEAN }

\* The local newVer outside its live range: before s.availableUpdate() is
\* called, and after the last statement that reads it.
Unset == [present |-> FALSE, ForceUpgrade |-> FALSE, SecurityNotes |-> TRUE]

----------------------------------------------------------------------------
CoordInit ==
    /\ pc = [s \in Sessions |-> "LoadConfig"]
    /\ stream = [s \in Sessions |-> <<>>]
    /\ calls = [s \in Sessions |-> <<>>]
    /\ failedAt = [s \in Sessions |-> "none"]
    /\ defers = [s \in Sessions |-> <<>>]
    /\ acquired = [s \in Sessions |-> {}]
    /\ closes = [s \in Sessions |-> [r \in Resources |-> 0]]
    /\ newVer = [s \in Sessions |-> Unset]
    /\ upgradeErr = [s \in Sessions |-> FALSE]
    /\ runInstance = [s \in Sessions |-> NoRun]
    /\ done = [s \in Sessions |-> FALSE]
    /\ mu = NoSession
    /\ streams = <<>>
    /\ nextID = 1
    /\ exitedBy = NoSession
    /\ wpc = [s \in Sessions |-> "none"]
    /\ woken = [s \in Sessions |-> "none"]
    /\ events = [s \in Sessions |-> <<>>]

\* No listener.
NoListener == <<"nil">>

\* The bind of the port is not followed step by step.
BindIdle ==
    /\ bpc = "idle"
    /\ req = [ListenAddr |-> <<>>]
    /\ listenAddr = <<>>
    /\ ln = NoListener
    /\ bindErr = "nil"
    /\ displayListenAddr = <<>>
    /\ bout = <<>>
    /\ bcalls = <<>>

Init ==
    /\ CoordInit
    /\ BindIdle
    /\ apc = "idle"
    /\ ain = <<>>
    /\ externalDBs = <<>>
    /\ warned = {}
    /\ ranged = {}
    /\ aout = <<>>

\* A failure exit that sends the Exit message before its report.
FailWithExitFirst(s, step, texts) ==
    /\ failedAt' = [failedAt EXCEPT ![s] = step]
    /\ stream' = [stream EXCEPT ![s] =
                    Append(@, Exit(1)) \o [i \in 1 .. Len(texts) |-> Output(texts[i])]]
    /\ closes' = RunDefers(s)
    /\ defers' = [defers EXCEPT ![s] = <<>>]
    /\ pc' = [pc EXCEPT ![s] = "returned"]

\* A failure exit of Run: the report, sendExit(1), return nil; the deferred
\* calls run on the way out.
FailWith(s, step, texts) ==
    /\ failedAt' = [failedAt EXCEPT ![s] = step]
    /\ stream' = [stream EXCEPT ![s] = sendExit(Fprint(s, texts), 1)]
    /\ closes' = RunDefers(s)
    /\ defers' = [defers EXCEPT ![s] = <<>>]
    /\ pc' = [pc EXCEPT ![s] = "returned"]

\* userconfig.ForApp(req.AppRoot).Get()
LoadConfig(s) ==
    /\ Alive /\ pc[s] = "LoadConfig"
    /\ calls' = [calls EXCEPT ![s] = Append(@, "LoadConfig")]
    /\ \E ok \in BOOLEAN :
         IF ok
         THEN /\ pc' = [pc EXCEPT ![s] = "BeginTracing"]
              /\ UNCHANGED <<stream, failedAt, defers, closes>>
         ELSE FailWith(s, "LoadConfig", <<"failed to load config">>)
    /\ UNCHANGED <<acquired, newVer, upgradeErr, runInstance, done, mu, streams,
                   nextID, exitedBy, watchVars, annVars, bindVars>>

\* s.beginTracing(...); defer fns.CloseIgnore(tracer)
BeginTracing(s) ==
    /\ Alive /\ pc[s] = "BeginTracing"
    /\ calls' = [calls EXCEPT ![s] = Append(@, "BeginTracing")]
    /\ \E ok \in BOOLEAN :
         IF ok
         THEN /\ acquired' = [acquired EXCEPT ![s] = @ \cup {"tracer"}]
              /\ defers' = [defers EXCEPT ![s] = <<"tracer">> \o @]
              /\ pc' = [pc EXCEPT ![s] = "BindPort"]
              /\ UNCHANGED <<stream, failedAt, closes>>
         ELSE /\ FailWith(s, "BeginTracing", <<"failed to begin tracing">>)
              /\ UNCHANGED acquired
    /\ UNCHANGED <<newVer, upgradeErr, runInstance, done, mu, streams,
                   nextID, exitedBy, watchVars, annVars, bindVars>>

\* net.Listen("tcp", listenAddr); defer fns.CloseIgnore(ln).  On an error the
\* report names the cause (errIsAddrInUse or not) and findAvailableAddr's
\* answer: a port on a loopback host, an address on another host, or none.
BindHints == {"Note: port is available", "Note: address is available",
              "Note: specify --port=NUMBER"}

BindPort(s) ==
    /\ Alive /\ pc[s] = "BindPort"
    /\ calls' = [calls EXCEPT ![s] = Append(@, "BindPort")]
    /\ \E ok \in BOOLEAN :
         IF ok
         THEN /\ acquired' = [acquired EXCEPT ![s] = @ \cup {"ln"}]
              /\ defers' = [defers EXCEPT ![s] = <<"ln">> \o @]
              /\ pc' = [pc EXCEPT ![s] = "ResolveApp"]
              /\ UNCHANGED <<stream, failedAt, closes>>
         ELSE /\ \E inUse \in BOOLEAN, hint \in BindHints :
                   FailWith(s, "BindPort",
                            << IF inUse THEN "Failed to run - port is already in use"
                                        ELSE "Failed to run - error",
                               hint >>)
              /\ UNCHANGED acquired
    /\ UNCHANGED <<newVer, upgradeErr, runInstance, done, mu, streams,
                   nextID, exitedBy, watchVars, annVars, bindVars>>

\* s.apps.Track(req.AppRoot)
ResolveApp(s) ==
    /\ Alive /\ pc[s] = "ResolveApp"
    /\ calls' = [calls EXCEPT ![s] = Append(@, "ResolveApp")]
    /\ \E ok \in BOOLEAN :
         IF ok
         THEN /\ pc' = [pc EXCEPT ![s] = "ResolveNamespace"]
              /\ UNCHANGED <<stream, failedAt, defers, closes>>
         ELSE FailWith(s, "ResolveApp", <<"failed to resolve app">>)
    /\ UNCHANGED <<acquired, newVer, upgradeErr, runInstance, done, mu, streams,
                   nextID, exitedBy, watchVars, annVars, bindVars>>

\* s.namespaceOrActive(ctx, app, req.Namespace)
ResolveNamespace(s) ==
    /\ Alive /\ pc[s] = "ResolveNamespace"
    /\ calls' = [calls EXCEPT ![s] = Append(@, "ResolveNamespace")]
    /\ \E ok \in BOOLEAN :
         IF ok
         THEN /\ pc' = [pc EXCEPT ![s] = "CheckUpgrade"]
              /\ UNCHANGED <<stream, failedAt, defers, closes>>
         ELSE FailWith(s, "ResolveNamespace", <<"failed to resolve namespace">>)
    /\ UNCHANGED <<acquired, newVer, upgradeErr, runInstance, done, mu, streams,
                   nextID, exitedBy, watchVars, annVars, bindVars>>

\* A forced-upgrade test that never fires.
MustUpgradeIgnored(v) == FALSE

\* The condition of the forced-upgrade branch.
MustUpgrade(v) == v.present /\ v.ForceUpgrade

\* ops := optracker.New(...); defer ops.AllDone(); newVer := s.availableUpdate();
\* then the test of the forced-upgrade branch.
CheckUpgrade(s) ==
    /\ Alive /\ pc[s] = "CheckUpgrade"
    /\ calls' = [calls EXCEPT ![s] = Append(@, "CheckUpgrade")]
    /\ acquired' = [acquired EXCEPT ![s] = @ \cup {"ops"}]
    /\ defers' = [defers EXCEPT ![s] = <<"ops">> \o @]
    /\ \E v \in VersionUpdates :
         /\ newVer' = [newVer EXCEPT ![s] = v]
         /\ pc' = [pc EXCEPT ![s] = IF MustUpgrade(v) THEN "ForceUpgrade" ELSE "Lock"]
    /\ UNCHANGED <<stream, failedAt, closes, upgradeErr, runInstance, done, mu,
                   streams, nextID, exitedBy, watchVars, annVars, bindVars>>

\* The body of the forced-upgrade branch up to sendExit(1): the notices,
\* newVer.DoUpgrade, slog.FlushBuffers, sendExit(1).
ForceUpgrade(s) ==
    /\ Alive /\ pc[s] = "ForceUpgrade"
    /\ \E err \in BOOLEAN :
         /\ upgradeErr' = [upgradeErr EXCEPT ![s] = err]
         /\ stream' = [stream EXCEPT ![s] =
              sendExit(Fprint(s,
                  <<"An urgent security update for Encore is available.">>
                  \o (IF newVer[s].SecurityNotes THEN <<"SecurityNotes">> ELSE <<>>)
                  \o <<"Upgrading Encore">>
                  \o (IF err THEN <<"Upgrade failed">> ELSE <<>>)), 1)]
    /\ pc' = [pc EXCEPT ![s] = "OsExit"]
    /\ UNCHANGED <<calls, failedAt, defers, acquired, closes, newVer, runInstance,
                   done, mu, streams, nextID, exitedBy, watchVars, annVars, bindVars>>

\* os.Exit(1): the daemon process ends at once; no deferred call runs, and
\* no goroutine of any session takes another step.
OsExit(s) ==
    /\ Alive /\ pc[s] = "OsExit"
    /\ exitedBy' = s
    /\ pc' = [pc EXCEPT ![s] = "exited"]
    /\ UNCHANGED <<stream, calls, failedAt, defers, acquired, closes, newVer,
                   upgradeErr, runInstance, done, mu, streams, nextID,
                   watchVars, annVars, bindVars>>

----------------------------------------------------------------------------
\* The server mutex s.mu and the map s.streams.

\* A Lock that does not wait for the holder.
CanLockAlways(s) == TRUE

\* s.mu.Lock() returns only when no goroutine holds the mutex.
CanLock(s) == mu = NoSession

\* An assignment that points every entry at the new streamLog.
RegisterClobber(m, id, s) == [k \in DOMAIN m \cup {id} |-> s]

\* s.streams[runInstance.ID] = slog
Register(m, id, s) == [k \in DOMAIN m \cup {id} |-> IF k = id THEN s ELSE m[k]]

\* A cleanup that leaves the entry in the map.
DeleteForgotten(m, id) == m

\* delete(s.streams, runInstance.ID)
Delete(m, id) == [k \in DOMAIN m \ {id} |-> m[k]]

\* s.mu.Lock(), the display address and browser mode, and the call of
\* s.mgr.Start, which then runs with the mutex held.
Lock(s) ==
    /\ Alive /\ pc[s] = "Lock"
    /\ CanLock(s)
    /\ mu' = s
    /\ calls' = [calls EXCEPT ![s] = Append(@, "StartRun")]
    /\ pc' = [pc EXCEPT ![s] = "Start"]
    /\ UNCHANGED <<stream, failedAt, defers, acquired, closes, newVer, upgradeErr,
                   runInstance, done, streams, nextID, exitedBy, watchVars, annVars, bindVars>>

\* s.mgr.Start returns.  On success, with a run whose ID is one of ids:
\* defer runInstance.Close() and the entry of s.streams.
StartReturnID(s, ids) ==
    /\ Alive /\ pc[s] = "Start"
    /\ \E ok \in BOOLEAN :
         IF ok
         THEN /\ \E id \in ids :
                   /\ runInstance' = [runInstance EXCEPT ![s] = id]
                   /\ nextID' = IF id = nextID THEN nextID + 1 ELSE nextID
                   /\ streams' = Register(streams, id, s)
              /\ acquired' = [acquired EXCEPT ![s] = @ \cup {"runInstance"}]
              /\ defers' = [defers EXCEPT ![s] = <<"runInstance">> \o @]
              /\ pc' = [pc EXCEPT ![s] = "Unlock"]
              /\ UNCHANGED failedAt
         ELSE /\ failedAt' = [failedAt EXCEPT ![s] = "StartRun"]
              /\ pc' = [pc EXCEPT ![s] = "StartFailed"]
              /\ UNCHANGED <<runInstance, nextID, acquired, defers, streams>>
    /\ UNCHANGED <<stream, calls, closes, newVer, upgradeErr, done, mu, exitedBy,
                   watchVars, annVars, bindVars>>

\* The run manager gives every run an ID of its own.
StartReturn(s) == StartReturnID(s, {nextID})

\* The error path of s.mgr.Start without its s.mu.Unlock().
UnlockFailedMissing(s) ==
    /\ Alive /\ pc[s] = "StartFailed"
    /\ pc' = [pc EXCEPT ![s] = "ReportStartErr"]
    /\ UNCHANGED <<stream, calls, failedAt, defers, acquired, closes, newVer,
                   upgradeErr, runInstance, done, mu, streams, nextID, exitedBy,
                   watchVars, annVars, bindVars>>

\* s.mu.Unlock() on the error path of s.mgr.Start
UnlockFailed(s) ==
    /\ Alive /\ pc[s] = "StartFailed"
    /\ mu = s
    /\ mu' = NoSession
    /\ pc' = [pc EXCEPT ![s] = "ReportStartErr"]
    /\ UNCHANGED <<stream, calls, failedAt, defers, acquired, closes, newVer,
                   upgradeErr, runInstance, done, streams, nextID, exitedBy,
                   watchVars, annVars, bindVars>>

\* The report of the start error (an error list, or its text), sendExit(1),
\* return nil.
ReportStartErr(s) ==
    /\ Alive /\ pc[s] = "ReportStartErr"
    /\ \E errList \in BOOLEAN :
         FailWith(s, "StartRun",
                  << IF errList THEN "errList.SendToStream" ELSE "err.Error()" >>)
    /\ newVer' = [newVer EXCEPT ![s] = Unset]
    /\ UNCHANGED <<calls, acquired, upgradeErr, runInstance, done, mu,
                   streams, nextID, exitedBy, watchVars, annVars, bindVars>>

\* s.mu.Unlock() after the entry of s.streams is set
Unlock(s) ==
    /\ Alive /\ pc[s] = "Unlock"
    /\ mu = s
    /\ mu' = NoSession
    /\ pc' = [pc EXCEPT ![s] = "Announce"]
    /\ UNCHANGED <<stream, calls, failedAt, defers, acquired, closes, newVer,
                   upgradeErr, runInstance, done, streams, nextID, exitedBy,
                   watchVars, annVars, bindVars>>

\* ops.AllDone(), the secrets, the announcement on stderr, slog.FlushBuffers().
\* The lines of the announcement are the subject of SpecAnnounce; the update
\* notice is the last read of newVer.
Announce(s) ==
    /\ Alive /\ pc[s] = "Announce"
    /\ closes' = [closes EXCEPT ![s]["ops"] = @ + 1]
    /\ stream' = [stream EXCEPT ![s] =
                    Fprint(s, <<"Encore development server running!">>)]
    /\ newVer' = [newVer EXCEPT ![s] = Unset]
    /\ pc' = [pc EXCEPT ![s] = "SpawnWatcher"]
    /\ UNCHANGED <<calls, failedAt, defers, acquired, upgradeErr,
                   runInstance, done, mu, streams, nextID, exitedBy,
                   watchVars, annVars, bindVars>>

\* go func() { ... }()
SpawnWatcher(s) ==
    /\ Alive /\ pc[s] = "SpawnWatcher"
    /\ wpc' = [wpc EXCEPT ![s] = "spawned"]
    /\ pc' = [pc EXCEPT ![s] = "WaitDone"]
    /\ UNCHANGED <<stream, calls, failedAt, defers, acquired, closes, newVer,
                   upgradeErr, runInstance, done, mu, streams, nextID, exitedBy,
                   woken, events, annVars, bindVars>>

\* A cleanup that does not wait for the completion signal.
DoneAssumed(s) == TRUE

\* <-runInstance.Done() returns once the channel is closed.
DoneObserved(s) == done[s]

\* <-runInstance.Done()
WaitDone(s) ==
    /\ Alive /\ pc[s] = "WaitDone"
    /\ DoneObserved(s)
    /\ pc' = [pc EXCEPT ![s] = "CleanupLock"]
    /\ UNCHANGED <<stream, calls, failedAt, defers, acquired, closes, newVer,
                   upgradeErr, runInstance, done, mu, streams, nextID, exitedBy,
                   watchVars, annVars, bindVars>>

\* s.mu.Lock() of the cleanup
CleanupLock(s) ==
    /\ Alive /\ pc[s] = "CleanupLock"
    /\ CanLock(s)
    /\ mu' = s
    /\ pc' = [pc EXCEPT ![s] = "CleanupDelete"]
    /\ UNCHANGED <<stream, calls, failedAt, defers, acquired, closes, newVer,
                   upgradeErr, runInstance, done, streams, nextID, exitedBy,
                   watchVars, annVars, bindVars>>

\* delete(s.streams, runInstance.ID)
CleanupDelete(s) ==
    /\ Alive /\ pc[s] = "CleanupDelete"
    /\ streams' = Delete(streams, runInstance[s])
    /\ pc' = [pc EXCEPT ![s] = "CleanupUnlock"]
    /\ UNCHANGED <<stream, calls, failedAt, defers, acquired, closes, newVer,
                   upgradeErr, runInstance, done, mu, nextID, exitedBy,
                   watchVars, annVars, bindVars>>

\* The return of the cleanup without its s.mu.Unlock().
CleanupUnlockMissing(s) ==
    /\ Alive /\ pc[s] = "CleanupUnlock"
    /\ closes' = RunDefers(s)
    /\ defers' = [defers EXCEPT ![s] = <<>>]
    /\ pc' = [pc EXCEPT ![s] = "returned"]
    /\ UNCHANGED <<stream, calls, failedAt, acquired, newVer, upgradeErr, mu,
                   runInstance, done, streams, nextID, exitedBy, watchVars, annVars, bindVars>>

\* s.mu.Unlock(); return nil, and the deferred calls run.
CleanupUnlock(s) ==
    /\ Alive /\ pc[s] = "CleanupUnlock"
    /\ mu = s
    /\ mu' = NoSession
    /\ closes' = RunDefers(s)
    /\ defers' = [defers EXCEPT ![s] = <<>>]
    /\ pc' = [pc EXCEPT ![s] = "returned"]
    /\ UNCHANGED <<stream, calls, failedAt, acquired, newVer, upgradeErr,
                   runInstance, done, streams, nextID, exitedBy, watchVars, annVars, bindVars>>

----------------------------------------------------------------------------
\* The run and the first-run goroutine.

\* The run's completion signal fires: close of the channel runInstance.Done().
\* A goroutine blocked in the select is woken with the Done case.
RunDone(s) ==
    /\ Alive /\ runInstance[s] # NoRun /\ ~done[s]
    /\ done' = [done EXCEPT ![s] = TRUE]
    /\ events' = [events EXCEPT ![s] = Append(@, "done")]
    /\ woken' = [woken EXCEPT ![s] =
                   IF wpc[s] = "select" /\ @ = "none" THEN "done" ELSE @]
    /\ UNCHANGED <<pc, stream, calls, failedAt, defers, acquired, closes, newVer,
                   upgradeErr, runInstance, mu, streams, nextID, exitedBy, wpc,
                   annVars, bindVars>>

\* The goroutine reaches the select: time.After starts the timer; a closed
\* Done channel is ready at once, otherwise the goroutine blocks.
WatcherSelect(s) ==
    /\ Alive /\ wpc[s] = "spawned"
    /\ wpc' = [wpc EXCEPT ![s] = "select"]
    /\ woken' = [woken EXCEPT ![s] = IF done[s] THEN "done" ELSE "none"]
    /\ UNCHANGED <<coordVars, events, annVars, bindVars>>

\* The delay of time.After elapses: a value is sent on the timer's channel.
\* A goroutine still blocked in the select is woken with the timer case.
TimerFires(s) ==
    /\ Alive /\ wpc[s] = "select"
    /\ Count(events[s], "timer") = 0
    /\ events' = [events EXCEPT ![s] = Append(@, "timer")]
    /\ woken' = [woken EXCEPT ![s] = IF @ = "none" THEN "timer" ELSE @]
    /\ UNCHANGED <<coordVars, wpc, annVars, bindVars>>

\* runInstance.ProcGroup() != nil: the process group of a started run.
HasProcGroup(s) == runInstance[s] # NoRun

\* A select without its Done case: the timer case runs whatever woke it.
TimerCaseAlways(s) == TRUE

\* The select runs the body of the case that woke the goroutine: the timer
\* case only when the timer fired first.
TimerCase(s) == woken[s] = "timer"

\* The body of the select case that woke the goroutine.  The call of
\* showFirstRunExperience writes the first-run guidance to stderr.
WatcherWake(s) ==
    /\ Alive /\ wpc[s] = "select" /\ woken[s] # "none"
    /\ wpc' = [wpc EXCEPT ![s] = "ended"]
    /\ stream' = [stream EXCEPT ![s] =
                    IF TimerCase(s) /\ HasProcGroup(s)
                    THEN Fprint(s, <<"first-run guidance">>)
                    ELSE @]
    /\ UNCHANGED <<pc, calls, failedAt, defers, acquired, closes, newVer,
                   upgradeErr, runInstance, done, mu, streams, nextID, exitedBy,
                   woken, events, annVars, bindVars>>

----------------------------------------------------------------------------
Next ==
    \E s \in Sessions :
        \/ LoadConfig(s)
        \/ BeginTracing(s)
        \/ BindPort(s)
        \/ ResolveApp(s)
        \/ ResolveNamespace(s)
        \/ CheckUpgrade(s)
        \/ ForceUpgrade(s)
        \/ OsExit(s)
        \/ Lock(s)
        \/ StartReturn(s)
        \/ UnlockFailed(s)
        \/ ReportStartErr(s)
        \/ Unlock(s)
        \/ Announce(s)
        \/ SpawnWatcher(s)
        \/ WaitDone(s)
        \/ CleanupLock(s)
        \/ CleanupDelete(s)
        \/ CleanupUnlock(s)
        \/ RunDone(s)
        \/ WatcherSelect(s)
        \/ TimerFires(s)
        \/ WatcherWake(s)

Spec == Init /\ [][Next]_vars

----------------------------------------------------------------------------
\* Properties of the coordinator.

Last(seq) == seq[Len(seq)]

\* The entries of s.streams that hold session s's streamLog.
EntriesOf(s) == {id \in DOMAIN streams : streams[id] = s}

FailureSteps == {"LoadConfig", "BeginTracing", "BindPort", "ResolveApp",
                 "ResolveNamespace", "StartRun"}

\* C1: a Run that fails at LoadConfig, BeginTracing, BindPort, ResolveApp,
\* ResolveNamespace or StartRun sends exactly one Exit message, with code 1,
\* and returns; it attempts no step after the failing one and does not end
\* the daemon.
FailureEndsSessionOnly ==
    \A s \in Sessions :
        failedAt[s] # "none" =>
            /\ failedAt[s] \in FailureSteps
            /\ pc[s] \in {"StartFailed", "ReportStartErr", "returned"}
            /\ calls[s] = SubSeq(StepOrder, 1, StepIndex(failedAt[s]))
            /\ runInstance[s] = NoRun /\ wpc[s] = "none"
            /\ exitedBy # s
            /\ pc[s] = "returned" =>
                  /\ Len(Exits(s)) = 1
                  /\ Exits(s)[1].code = 1

\* Two sessions have failed and returned, one at StartRun and one at BindPort.
FailureEndsSessionOnlyWitness ==
    \E s, t \in Sessions :
        /\ pc[s] = "returned" /\ failedAt[s] = "StartRun"
        /\ pc[t] = "returned" /\ failedAt[t] = "BindPort"

ForcedUpgradeStopsSession ==
    \A s \in Sessions :
        (newVer[s].present /\ newVer[s].ForceUpgrade) =>
            /\ pc[s] \in {"ForceUpgrade", "OsExit", "exited"}
            /\ Count(calls[s], "StartRun") = 0
            /\ runInstance[s] = NoRun
            /\ EntriesOf(s) = {}
            /\ mu # s
            /\ pc[s] = "ForceUpgrade" => Len(Exits(s)) = 0 /\ exitedBy # s
            /\ pc[s] \in {"OsExit", "exited"} =>
                  /\ Len(Exits(s)) = 1
                  /\ Exits(s)[1].code = 1
            /\ exitedBy = s <=> pc[s] = "exited"

\* A session whose DoUpgrade failed has ended the daemon, while a session
\* whose DoUpgrade succeeded had sent its Exit message.
ForcedUpgradeStopsSessionWitness ==
    \E s, t \in Sessions :
        /\ pc[s] = "exited" /\ upgradeErr[s] /\ exitedBy = s
        /\ pc[t] = "OsExit" /\ ~upgradeErr[t] /\ newVer[t].ForceUpgrade

\* The sessions whose run has started and whose cleanup has not yet deleted
\* the entry.
Running == {s \in Sessions :
              /\ runInstance[s] # NoRun
              /\ pc[s] \in {"Unlock", "Announce", "SpawnWatcher", "WaitDone",
                            "CleanupLock", "CleanupDelete"}}

\* C4: s.streams holds an entry for a run ID exactly if some session's Start
\* returned that ID and the session has not yet performed its cleanup; a
\* session that ended before a successful Start never has an entry, and a
\* session that has returned has none.
RegistryMatchesRunning ==
    /\ DOMAIN streams = {runInstance[s] : s \in Running}
    /\ \A s \in Sessions :
          /\ runInstance[s] = NoRun => EntriesOf(s) = {}
          /\ pc[s] = "returned" =>
                /\ EntriesOf(s) = {}
                /\ runInstance[s] \notin DOMAIN streams

\* One session is registered and waits; a second has cleaned up and returned.
RegistryMatchesRunningWitness ==
    \E s, t \in Sessions :
        /\ s \in Running /\ pc[s] = "WaitDone"
        /\ pc[t] = "returned" /\ runInstance[t] # NoRun

\* C5, as claimed: while a session is inside the run manager's Start, any
\* other session that wants the mutex (to begin its own Start, or for its
\* cleanup) can acquire it.
OthersCanLockDuringStart ==
    \A s, t \in Sessions :
        (s # t /\ pc[s] = "Start" /\ pc[t] \in {"Lock", "CleanupLock"})
            => CanLock(t)

\* C5, as amended: the mutex is held by the session for the whole of the
\* Start call; meanwhile no other session is inside Start, installs an entry
\* of s.streams or performs its cleanup.
MutexHeldAcrossStart ==
    \A s \in Sessions :
        pc[s] = "Start" =>
            /\ mu = s
            /\ \A t \in Sessions \ {s} :
                  pc[t] \notin {"Start", "StartFailed", "Unlock",
                                "CleanupDelete", "CleanupUnlock"}

\* A session is inside Start while another, whose run is done, waits for the
\* mutex to clean up.
MutexHeldAcrossStartWitness ==
    \E s, t \in Sessions :
        /\ pc[s] = "Start" /\ mu = s
        /\ pc[t] = "CleanupLock" /\ done[t]

\* A step that adds an entry to s.streams is the return of a Start call
\* made with the mutex held.
RegistrationStep ==
    \A id \in DOMAIN streams' \ DOMAIN streams :
        \E s \in Sessions :
            /\ pc[s] = "Start" /\ mu = s /\ mu' = s
            /\ runInstance'[s] = id /\ streams'[id] = s

\* A step that removes an entry from s.streams is the delete of the session
\* that owns it, made after it observed its completion signal.
RemovalStep ==
    \A id \in DOMAIN streams \ DOMAIN streams' :
        \E s \in Sessions :
            /\ runInstance[s] = id /\ streams[id] = s
            /\ pc[s] = "CleanupDelete" /\ done[s] /\ mu = s

\* While the session holds the mutex after its Start returned, and until its
\* delete, the entry is in place.
EntryInPlace ==
    \A s \in Sessions :
        /\ pc[s] = "Unlock" => mu = s
        /\ pc[s] \in {"Unlock", "Announce", "SpawnWatcher", "WaitDone",
                      "CleanupLock", "CleanupDelete"}
              => runInstance[s] \in DOMAIN streams /\ streams[runInstance[s]] = s
        /\ pc[s] \in {"CleanupLock", "CleanupDelete", "CleanupUnlock"} => done[s]

\* C6: the entry is installed before the mutex taken for Start is released,
\* it is removed only after the coordinator observed the completion signal,
\* and no entry is installed once the coordinator has observed it.
RegisterBeforeUnlockRemoveAfterDone ==
    []EntryInPlace /\ [][RegistrationStep /\ RemovalStep]_vars

\* A session has observed its completion signal and deleted its entry.
RegisterBeforeUnlockRemoveAfterDoneWitness ==
    \E s \in Sessions :
        /\ pc[s] = "CleanupUnlock" /\ done[s]
        /\ runInstance[s] \notin DOMAIN streams

\* A step changes at most the entry of the run of the session that takes it.
FrameStep ==
    \A id \in DOMAIN streams \cup DOMAIN streams' :
        \/ /\ id \in DOMAIN streams /\ id \in DOMAIN streams'
           /\ streams'[id] = streams[id]
        \/ \E s \in Sessions :
              /\ pc'[s] # pc[s]
              /\ runInstance'[s] = id
              /\ \/ id \notin DOMAIN streams /\ streams'[id] = s
                 \/ id \notin DOMAIN streams'

\* Every entry maps the ID of a run to the streamLog of that run's session,
\* and a session's ID is not found after its cleanup.
OwnEntries ==
    /\ \A id \in DOMAIN streams : runInstance[streams[id]] = id
    /\ \A s, t \in Sessions :
          (s # t /\ runInstance[s] # NoRun) => runInstance[s] # runInstance[t]
    /\ \A s \in Sessions :
          (runInstance[s] # NoRun /\ pc[s] \in {"CleanupUnlock", "returned"})
              => runInstance[s] \notin DOMAIN streams

\* C7: a session's registration and cleanup change only the entry of its own
\* run ID; every other entry stays mapped to its own session's streamLog, and
\* after the cleanup the session's ID is not found.
RegistryFrame == []OwnEntries /\ [][FrameStep]_vars

\* Two sessions were registered at once; one has cleaned up, the other's
\* entry is still there.
RegistryFrameWitness ==
    \E s, t \in Sessions :
        /\ pc[s] = "returned" /\ runInstance[s] # NoRun
        /\ pc[t] = "WaitDone" /\ runInstance[t] \in DOMAIN streams
        /\ runInstance[t] < runInstance[s]

\* The first-run guidance written to session s's stderr.
Guidance(s) ==
    Len(SelectSeq(stream[s], LAMBDA m : m.text = "first-run guidance"))

ReleasedOnReturn ==
    \A s \in Sessions :
        pc[s] = "returned" =>
            /\ "tracer" \in acquired[s] => closes[s]["tracer"] = 1
            /\ "ln" \in acquired[s] => closes[s]["ln"] = 1

\* C9: on every exit of Run after the tracer was acquired the tracer has
\* been released exactly once, and on every exit after the listener was
\* bound the listener has been released; the forced-upgrade exit included.
ReleasedOnEveryExit ==
    \A s \in Sessions :
        pc[s] \in {"returned", "exited"} =>
            /\ "tracer" \in acquired[s] => closes[s]["tracer"] = 1
            /\ "ln" \in acquired[s] => closes[s]["ln"] >= 1

----------------------------------------------------------------------------
\* The announcement of one started run: the external databases taken from the
\* secrets and the lines written to stderr.

\* Number of database names that occur in sqldb:: secret keys.
MaxDBs == 2

DBNames == 1 .. MaxDBs

\* Secret keys: "sqldb::<name>" for each database name, and one other key.
SqlKey(n) == [sqldb |-> TRUE, rest |-> n]
OtherKey == [sqldb |-> FALSE, rest |-> 0]
SecretKeys == {SqlKey(n) : n \in DBNames} \cup {OtherKey}

\* Text is modelled as a sequence of tokens.  A connection string is
\*   scheme ":" "//" [ [user] [":" password] "@" ] host [":" port] path ["?" query]

Range(seq) == {seq[i] : i \in 1 .. Len(seq)}

\* The position of the first (last) occurrence of a token, 0 if there is none.
IndexOf(seq, tok) ==
    IF tok \in Range(seq)
    THEN CHOOSE i \in 1 .. Len(seq) :
            seq[i] = tok /\ \A j \in 1 .. i - 1 : seq[j] # tok
    ELSE 0

LastIndexOf(seq, tok) ==
    IF tok \in Range(seq)
    THEN CHOOSE i \in 1 .. Len(seq) :
            seq[i] = tok /\ \A j \in i + 1 .. Len(seq) : seq[j] # tok
    ELSE 0

\* *url.Userinfo; nil is NoUser.
NoUser == [set |-> FALSE, Username |-> "", Password |-> "", PasswordSet |-> FALSE]

\* url.User(username): a Userinfo with the username and no password.
User(username) ==
    [set |-> TRUE, Username |-> username, Password |-> "", PasswordSet |-> FALSE]

\* url.UserPassword(username, password)
UserPassword(username, password) ==
    [set |-> TRUE, Username |-> username, Password |-> password, PasswordSet |-> TRUE]

\* (*Userinfo).Username(): the empty string for a nil receiver.
Username(u) == IF u.set THEN u.Username ELSE ""

EmptyURL == [Scheme |-> "", User |-> NoUser, Host |-> "", Port |-> "",
             Path |-> "", RawQuery |-> ""]

\* (*url.URL).String()
String(u) ==
    (IF u.Scheme # "" THEN <<u.Scheme, ":">> ELSE <<>>)
    \o (IF u.Scheme # "" \/ u.Host # "" \/ u.User.set
        THEN (IF u.Host # "" \/ u.Path # "" \/ u.User.set THEN <<"//">> ELSE <<>>)
             \o (IF u.User.set
                 THEN (IF u.User.Username # "" THEN <<u.User.Username>> ELSE <<>>)
                      \o (IF u.User.PasswordSet
                          THEN <<":", u.User.Password>> ELSE <<>>)
                      \o <<"@">>
                 ELSE <<>>)
             \o (IF u.Host # "" THEN <<u.Host>> ELSE <<>>)
             \o (IF u.Port # "" THEN <<":", u.Port>> ELSE <<>>)
        ELSE <<>>)
    \o (IF u.Path # "" THEN <<u.Path>> ELSE <<>>)
    \o (IF u.RawQuery # "" THEN <<"?", u.RawQuery>> ELSE <<>>)

\* A token that url.Parse rejects (an invalid percent-escape).
BadEscape == "%zz"

Paths == {"/app"}

\* The userinfo of an authority: the tokens before the last "@".
ParseUserinfo(ui) ==
    LET c == IndexOf(ui, ":")
        name == IF ui = <<>> \/ c = 1 THEN "" ELSE ui[1]
    IN  IF c = 0 THEN User(name)
        ELSE UserPassword(name, IF c < Len(ui) THEN ui[c + 1] ELSE "")

\* url.Parse(text): [ok, url].
Parse(text) ==
    IF BadEscape \in Range(text) THEN [ok |-> FALSE, url |-> EmptyURL]
    ELSE IF text = <<>> THEN [ok |-> TRUE, url |-> EmptyURL]
    ELSE
      LET q == IndexOf(text, "?")
          query == IF q = 0 \/ q = Len(text) THEN "" ELSE text[q + 1]
          body == IF q = 0 THEN text ELSE SubSeq(text, 1, q - 1)
          hasScheme == Len(body) >= 2 /\ body[2] = ":" /\ body[1] # "//"
          scheme == IF hasScheme THEN body[1] ELSE ""
          rest == IF hasScheme THEN SubSeq(body, 3, Len(body)) ELSE body
          hasAuth == rest # <<>> /\ rest[1] = "//"
          afterSl == IF hasAuth THEN SubSeq(rest, 2, Len(rest)) ELSE rest
          hasPath == afterSl # <<>> /\ afterSl[Len(afterSl)] \in Paths
          path == IF hasPath THEN afterSl[Len(afterSl)] ELSE ""
          auth == IF hasPath THEN SubSeq(afterSl, 1, Len(afterSl) - 1) ELSE afterSl
          at == LastIndexOf(auth, "@")
          user == IF hasAuth /\ at > 0
                  THEN ParseUserinfo(SubSeq(auth, 1, at - 1)) ELSE NoUser
          hostport == SubSeq(auth, at + 1, Len(auth))
          colon == IndexOf(hostport, ":")
      IN  [ok |-> TRUE,
           url |-> [Scheme |-> scheme,
                    User |-> user,
                    Host |-> IF hostport = <<>> \/ colon = 1 THEN "" ELSE hostport[1],
                    Port |-> IF colon > 0 /\ colon < Len(hostport)
                             THEN hostport[colon + 1] ELSE "",
                    Path |-> path,
                    RawQuery |-> query]]

\* The URLs that connection strings are drawn from.
UserInfos == {NoUser, User("admin"), UserPassword("admin", "hunter2"),
              UserPassword("", "hunter2")}

URLs == [Scheme : {"postgres"}, User : UserInfos, Host : {"db.example"},
         Port : {"", "5432"}, Path : Paths, RawQuery : {"", "sslmode=require"}]

\* Connection strings: well-formed URLs, the empty string, and one that
\* url.Parse rejects.
ConnStrings ==
    {String(u) : u \in URLs} \cup {<<>>, <<"postgres", ":", "//", BadEscape>>}

\* A secret's value: absent from the bundle, text that is not the JSON of a
\* connCfg, or such JSON with its connection_string.
Absent == [present |-> FALSE, json |-> FALSE, conn |-> <<>>]
BadJSON == [present |-> TRUE, json |-> FALSE, conn |-> <<>>]
JSONConn(conn) == [present |-> TRUE, json |-> TRUE, conn |-> conn]

AllSecretValues == {Absent, BadJSON} \cup {JSONConn(c) : c \in ConnStrings}

GoodConn ==
    String([Scheme |-> "postgres", User |-> UserPassword("admin", "hunter2"),
            Host |-> "db.example", Port |-> "5432", Path |-> "/app",
            RawQuery |-> ""])

SecretValues ==
    {Absent, BadJSON, JSONConn(<<"postgres", ":", "//", BadEscape>>),
     JSONConn(GoodConn)}

Namespaces == [Active : BOOLEAN, Name : {"default", "staging"}]

AnnounceVersions ==
    {[present |-> FALSE, SecurityUpdate |-> FALSE, SecurityNotes |-> FALSE]} \cup
    [present : {TRUE}, SecurityUpdate : BOOLEAN, SecurityNotes : BOOLEAN]

AnnounceInputs ==
    [ns : Namespaces,
     secrets : {f \in [SecretKeys -> SecretValues] :
                    f[OtherKey] = JSONConn(GoodConn)},
     debug : BOOLEAN,
     gateway : BOOLEAN,
     experiments : BOOLEAN,
     newVer : AnnounceVersions]

Line(kind, db) == [kind |-> kind, db |-> db, text |-> <<>>]

\* The line of one external database: its name and connection string.
DBLine(db, connStr) == [kind |-> "db", db |-> db, text |-> connStr]

Write(lines) == aout \o lines

InitAnnounce ==
    /\ CoordInit
    /\ watchVars = <<[s \in Sessions |-> "none"], [s \in Sessions |-> "none"],
                     [s \in Sessions |-> <<>>]>>
    /\ BindIdle
    /\ apc = "secrets"
    /\ ain \in AnnounceInputs
    /\ externalDBs = <<>>
    /\ warned = {}
    /\ ranged = {}
    /\ aout = <<>>

\* json.Unmarshal([]byte(val), &connCfg) returns no error.
UnmarshalsAlways(v) == TRUE

Unmarshals(v) == v.json

\* connURL.User = url.User(connURL.User.Username()) left out.
RedactNothing(u) == u

\* connURL.User = url.User(connURL.User.Username())
Redact(u) == [u EXCEPT !.User = User(Username(u.User))]

\* The sqldb:: keys of the bundle whose value gives an entry / a warning.
Displayable(secrets) ==
    {n \in DBNames :
        /\ secrets[SqlKey(n)].present
        /\ Unmarshals(secrets[SqlKey(n)])
        /\ Parse(secrets[SqlKey(n)].conn).ok}

Skipped(secrets) ==
    {n \in DBNames : secrets[SqlKey(n)].present} \ Displayable(secrets)

\* The loop over secrets.Values: a key with the prefix sqldb:: whose value
\* unmarshals and whose connection string parses gives an entry, the
\* connection string rendered without its password; a value that fails
\* either parse is logged and skipped; the other keys are passed over.
ExternalDBs ==
    /\ apc = "secrets"
    /\ externalDBs' =
          [db \in Displayable(ain.secrets) |->
              String(Redact(Parse(ain.secrets[SqlKey(db)].conn).url))]
    /\ warned' = Skipped(ain.secrets)
    /\ apc' = "head"
    /\ UNCHANGED <<coordVars, watchVars, bindVars, ain, ranged, aout>>

\* The namespace line is printed unless the namespace is the active default.
ShowNamespace(ns) == ~ns.Active \/ ns.Name # "default"

\* The banner and the URLs, then the namespace line and the header of the
\* database section.
AnnounceHead ==
    /\ apc = "head"
    /\ aout' = Write(
          << Line("blank", 0), Line("running", 0), Line("api", 0),
             Line("dashboard", 0), Line("mcp", 0) >>
          \o (IF ShowNamespace(ain.ns)
              THEN << Line("namespace", 0) >>
                   \o (IF Cardinality(DOMAIN externalDBs) > 0
                       THEN << Line("dbheader", 0) >> ELSE << >>)
              ELSE << >>))
    /\ apc' = "dbs"
    /\ UNCHANGED <<coordVars, watchVars, bindVars, ain, externalDBs, warned, ranged>>

\* One iteration of the range loop over externalDBs, in the map's order.
AnnounceDB ==
    /\ apc = "dbs"
    /\ \E db \in DOMAIN externalDBs \ ranged :
          /\ aout' = Write(<< DBLine(db, externalDBs[db]) >>)
          /\ ranged' = ranged \cup {db}
    /\ UNCHANGED <<coordVars, watchVars, bindVars, apc, ain, externalDBs, warned>>

\* After the loop: the process ID, the experiments, the update notice, the
\* closing blank line, slog.FlushBuffers().
AnnounceTail ==
    /\ apc = "dbs"
    /\ ranged = DOMAIN externalDBs
    /\ aout' = Write(
          (IF ain.debug /\ ain.gateway THEN << Line("pid", 0) >> ELSE << >>)
          \o (IF ain.experiments THEN << Line("experiments", 0) >> ELSE << >>)
          \o (IF ain.newVer.present
              THEN IF ain.newVer.SecurityUpdate
                   THEN << Line("security-update", 0) >>
                        \o (IF ain.newVer.SecurityNotes
                            THEN << Line("security-notes", 0) >> ELSE << >>)
                   ELSE << Line("update", 0) >>
              ELSE << >>)
          \o << Line("blank", 0) >>)
    /\ apc' = "done"
    /\ UNCHANGED <<coordVars, watchVars, bindVars, ain, externalDBs, warned, ranged>>

NextAnnounce ==
    \/ ExternalDBs
    \/ AnnounceHead
    \/ AnnounceDB
    \/ AnnounceTail

SpecAnnounce == InitAnnounce /\ [][NextAnnounce]_vars

Lines(kind) == Len(SelectSeq(aout, LAMBDA l : l.kind = kind))

\* C10: with the active default namespace the announcement has no namespace
\* line, no database header and no database line, whatever the external
\* databases; with any other namespace it has the namespace line, and the
\* database section exactly if there is an external database.
DefaultNamespaceHidesDatabases ==
    apc = "done" =>
        IF ain.ns.Active /\ ain.ns.Name = "default"
        THEN Lines("namespace") = 0 /\ Lines("dbheader") = 0 /\ Lines("db") = 0
        ELSE /\ Lines("namespace") = 1
             /\ Lines("dbheader") = (IF DOMAIN externalDBs # {} THEN 1 ELSE 0)
             /\ Lines("db") = Cardinality(DOMAIN externalDBs)

\* What the announcement does print: the namespace line and the header are
\* keyed to the namespace, the database lines to the databases alone.
DatabaseLinesAlwaysPrinted ==
    apc = "done" =>
        /\ Lines("db") = Cardinality(DOMAIN externalDBs)
        /\ Lines("namespace") = (IF ShowNamespace(ain.ns) THEN 1 ELSE 0)
        /\ Lines("dbheader") =
              (IF ShowNamespace(ain.ns) /\ DOMAIN externalDBs # {} THEN 1 ELSE 0)

\* The secrets loop and the announcement for every secret bundle, the other
\* inputs of the announcement held at one value each.
SecretsInputs ==
    [ns : Namespaces,
     secrets : {f \in [SecretKeys -> AllSecretValues] :
                    f[OtherKey] = JSONConn(GoodConn)},
     debug : {FALSE}, gateway : {FALSE}, experiments : {FALSE},
     newVer : {[present |-> FALSE, SecurityUpdate |-> FALSE,
                SecurityNotes |-> FALSE]}]

InitSecrets ==
    /\ CoordInit
    /\ watchVars = <<[s \in Sessions |-> "none"], [s \in Sessions |-> "none"],
                     [s \in Sessions |-> <<>>]>>
    /\ BindIdle
    /\ apc = "secrets"
    /\ ain \in SecretsInputs
    /\ externalDBs = <<>>
    /\ warned = {}
    /\ ranged = {}
    /\ aout = <<>>

SpecSecrets == InitSecrets /\ [][NextAnnounce]_vars

\* The original URL of the secret sqldb::n, as url.Parse reads it.
Original(n) == Parse(ain.secrets[SqlKey(n)].conn).url

\* The secret sqldb::n is a connection string with a password.
HasPassword(n) ==
    /\ ain.secrets[SqlKey(n)].present
    /\ ain.secrets[SqlKey(n)].json
    /\ Parse(ain.secrets[SqlKey(n)].conn).ok
    /\ Original(n).User.PasswordSet

\* The connection strings written for the database n.
Shown(n) == {aout[i].text : i \in {j \in 1 .. Len(aout) :
                                      aout[j].kind = "db" /\ aout[j].db = n}}

\* C11: for a secret sqldb::n whose connection string has a password, the
\* entry of n and every line written for n are the URL without the password:
\* the password occurs nowhere in the text, and the text reads back with the
\* username, host, port, path and query of the original.  (The password is
\* taken not to occur in another component of the URL.)
PasswordNeverDisplayed ==
    \A n \in DBNames :
        HasPassword(n) /\ apc # "secrets" =>
            /\ n \in DOMAIN externalDBs
            /\ Shown(n) \subseteq {externalDBs[n]}
            /\ (apc = "done" => Shown(n) = {externalDBs[n]})
            /\ Original(n).User.Password \notin Range(externalDBs[n])
            /\ LET d == Parse(externalDBs[n])
               IN  /\ d.ok
                   /\ ~d.url.User.PasswordSet
                   /\ d.url.User.Username = Original(n).User.Username
                   /\ d.url.Host = Original(n).Host
                   /\ d.url.Port = Original(n).Port
                   /\ d.url.Path = Original(n).Path
                   /\ d.url.RawQuery = Original(n).RawQuery

PasswordNeverDisplayedWitness ==
    /\ apc = "done"
    /\ \E n \in DBNames :
          /\ HasPassword(n)
          /\ Original(n).User.Password = "hunter2"
          /\ Original(n).Port = "5432"
          /\ Original(n).RawQuery = "sslmode=require"
          /\ Shown(n) # {}

\* The sqldb:: names whose value is JSON and whose connection string is a URL,
\* and those whose value fails one of the two.
WellFormed ==
    {n \in DBNames : /\ ain.secrets[SqlKey(n)].present
                     /\ ain.secrets[SqlKey(n)].json
                     /\ Parse(ain.secrets[SqlKey(n)].conn).ok}

Malformed ==
    {n \in DBNames : /\ ain.secrets[SqlKey(n)].present
                     /\ \/ ~ain.secrets[SqlKey(n)].json
                        \/ ~Parse(ain.secrets[SqlKey(n)].conn).ok}

\* C13: a malformed sqldb:: value is skipped with a warning and stops
\* nothing: after the loop the entries are exactly the well-formed names and
\* the warnings exactly the malformed ones, whatever else the bundle holds,
\* and the complete announcement has one line for each well-formed name and
\* none for another.
MalformedSecretsSkipped ==
    /\ apc \in {"secrets", "head", "dbs", "done"}
    /\ apc # "secrets" =>
          /\ DOMAIN externalDBs = WellFormed
          /\ warned = Malformed
    /\ \A n \in DBNames : Shown(n) # {} => n \in WellFormed
    /\ apc = "done" =>
          /\ \A n \in WellFormed : Shown(n) # {}
          /\ Lines("db") = Cardinality(WellFormed)

MalformedSecretsSkippedWitness ==
    /\ apc = "done"
    /\ Cardinality(WellFormed) = 1
    /\ Cardinality(Malformed) = 1
    /\ Lines("db") = 1
    /\ Cardinality(warned) = 1

\* ---------------------------------------------------------------------
\* The bind of the port (lines 52-81) and the address handed to the run
\* manager (lines 127-150), step by step.  An address is text: the tokens
\* of host:port, the host left out when it is empty.

Hosts == {"", "localhost", "127.0.0.1", "0.0.0.0"}
Ports == {"4000", "8080"}

Addr(host, port) == (IF host = "" THEN <<>> ELSE <<host>>) \o <<":", port>>

\* req.ListenAddr: an address, or empty from an old client.
ListenAddrs == {<<>>} \cup {Addr(h, p) : h \in Hosts, p \in Ports}

\* strings.HasPrefix(text, tok)
HasPrefix(text, tok) == text # <<>> /\ text[1] = tok

\* net.SplitHostPort
HostOf(addr) == IF HasPrefix(addr, ":") THEN "" ELSE addr[1]
PortOf(addr) == addr[Len(addr)]

\* The errors of net.Listen: none, EADDRINUSE, any other (here EACCES).
ListenErrors == {"nil", "EADDRINUSE", "EACCES"}

errIsAddrInUse(err) == err = "EADDRINUSE"

\* The port after the given one.
NextPort(port) == CASE port = "4000" -> "4001" [] port = "8080" -> "8081"

\* findAvailableAddr(addr): [ok, host, port], a free port after the given
\* one on the same host, or none.
findAvailableAddr(addr) ==
    {[ok |-> FALSE, host |-> "", port |-> ""],
     [ok |-> TRUE, host |-> HostOf(addr), port |-> NextPort(PortOf(addr))]}

InitBind ==
    /\ CoordInit
    /\ apc = "idle"
    /\ ain = <<>>
    /\ externalDBs = <<>>
    /\ warned = {}
    /\ ranged = {}
    /\ aout = <<>>
    /\ bpc = "listenAddr"
    /\ req \in [ListenAddr : ListenAddrs]
    /\ listenAddr = <<>>
    /\ ln = NoListener
    /\ bindErr = "nil"
    /\ displayListenAddr = <<>>
    /\ bout = <<>>
    /\ bcalls = <<>>

\* listenAddr := req.ListenAddr; if listenAddr == "" { listenAddr = ":4000" }
DefaultListenAddr ==
    /\ bpc = "listenAddr"
    /\ listenAddr' = IF req.ListenAddr = <<>> THEN <<":", "4000">>
                                             ELSE req.ListenAddr
    /\ bpc' = "Listen"
    /\ UNCHANGED <<coordVars, watchVars, annVars, req, ln, bindErr,
                   displayListenAddr, bout, bcalls>>

\* ln, err := net.Listen("tcp", listenAddr)
Listen ==
    /\ bpc = "Listen"
    /\ bcalls' = Append(bcalls, <<"net.Listen", listenAddr>>)
    /\ \E err \in ListenErrors :
          /\ bindErr' = err
          /\ ln' = IF err = "nil" THEN listenAddr ELSE NoListener
          /\ bpc' = IF err = "nil" THEN "displayListenAddr" ELSE "report"
    /\ UNCHANGED <<coordVars, watchVars, annVars, req, listenAddr,
                   displayListenAddr, bout>>

\* The report of the failed bind, lines 59-63.
ReportBindErr ==
    /\ bpc = "report"
    /\ bout' = Append(bout,
          Output(IF errIsAddrInUse(bindErr)
                 THEN <<"Failed to run on", listenAddr, "port is already in use">>
                 ELSE <<"Failed to run on", listenAddr, bindErr>>))
    /\ bpc' = "findAvailableAddr"
    /\ UNCHANGED <<coordVars, watchVars, annVars, req, listenAddr, ln, bindErr,
                   displayListenAddr, bcalls>>

\* The note of lines 65-76: findAvailableAddr is called and its result, or
\* the lack of one, is written.
SuggestAddr ==
    /\ bpc = "findAvailableAddr"
    /\ bcalls' = Append(bcalls, <<"findAvailableAddr", listenAddr>>)
    /\ \E a \in findAvailableAddr(listenAddr) :
          bout' = Append(bout,
             Output(IF a.ok
                    THEN IF a.host = "localhost" \/ a.host = "127.0.0.1"
                         THEN <<"Note: port", a.port, "is available; specify",
                                "--port", a.port>>
                         ELSE <<"Note: address", Addr(a.host, a.port),
                                "is available; specify",
                                "--listen", Addr(a.host, a.port)>>
                    ELSE <<"Note: specify", "--port=NUMBER",
                           "to run on another port">>))
    /\ bpc' = "sendExit"
    /\ UNCHANGED <<coordVars, watchVars, annVars, req, listenAddr, ln, bindErr,
                   displayListenAddr>>

\* sendExit(1); return nil
BindFailed ==
    /\ bpc = "sendExit"
    /\ bout' = sendExit(bout, 1)
    /\ bpc' = "returned"
    /\ UNCHANGED <<coordVars, watchVars, annVars, req, listenAddr, ln, bindErr,
                   displayListenAddr, bcalls>>

\* displayListenAddr := req.ListenAddr
\* if strings.HasPrefix(listenAddr, ":") {
\*     displayListenAddr = "localhost" + req.ListenAddr }
DisplayListenAddr ==
    /\ bpc = "displayListenAddr"
    /\ displayListenAddr' = IF HasPrefix(listenAddr, ":")
                            THEN <<"localhost">> \o req.ListenAddr
                            ELSE req.ListenAddr
    /\ bpc' = "Start"
    /\ UNCHANGED <<coordVars, watchVars, annVars, req, listenAddr, ln, bindErr,
                   bout, bcalls>>

\* s.mgr.Start(ctx, run.StartParams{Listener: ln,
\*                                  ListenAddr: displayListenAddr, ...})
StartWithListener ==
    /\ bpc = "Start"
    /\ bcalls' = Append(bcalls, <<"s.mgr.Start", ln, displayListenAddr>>)
    /\ bpc' = "started"
    /\ UNCHANGED <<coordVars, watchVars, annVars, req, listenAddr, ln, bindErr,
                   displayListenAddr, bout>>

NextBind ==
    \/ DefaultListenAddr
    \/ Listen
    \/ ReportBindErr
    \/ SuggestAddr
    \/ BindFailed
    \/ DisplayListenAddr
    \/ StartWithListener

SpecBind == InitBind /\ [][NextBind]_vars

\* The calls of the given name the bind has made.
Called(name) == {i \in 1 .. Len(bcalls) : bcalls[i][1] = name}

\* The notes written that name an available address or port.
Suggestions ==
    {i \in 1 .. Len(bout) :
        bout[i].kind = "output" /\ bout[i].text[1] \in {"Note: port", "Note: address"}}

\* C12: when the run manager is started, a listen address with an empty host
\* (the default :4000 of an empty request included) is displayed as
\* localhost:port with the port of the bound address, the listener itself is
\* bound to the empty host, and an address with a host is displayed as it is.
DisplayAddrIsLocalhostPort ==
    bpc = "started" =>
        /\ ln = listenAddr
        /\ bcalls[Len(bcalls)] = <<"s.mgr.Start", ln, displayListenAddr>>
        /\ IF HostOf(listenAddr) = ""
           THEN /\ displayListenAddr = <<"localhost", ":", PortOf(ln)>>
                /\ HostOf(ln) = ""
           ELSE displayListenAddr = listenAddr

\* What the code does for the requests that carry an address.
DisplayAddrOfGivenAddr ==
    bpc = "started" /\ req.ListenAddr # <<>> =>
        IF HostOf(listenAddr) = ""
        THEN displayListenAddr = <<"localhost", ":", PortOf(ln)>> /\ HostOf(ln) = ""
        ELSE displayListenAddr = listenAddr

\* C14: after a failed bind an alternative address is probed for and
\* suggested only if the error is address-in-use; in every case no second
\* bind is made, the session ends with the one message Exit(1), and the run
\* manager is not started.
ProbeOnlyWhenAddrInUse ==
    /\ bindErr # "nil" /\ ~errIsAddrInUse(bindErr) =>
          /\ Called("findAvailableAddr") = {}
          /\ Suggestions = {}
    /\ bindErr # "nil" =>
          /\ Cardinality(Called("net.Listen")) = 1
          /\ Called("s.mgr.Start") = {}
          /\ ln = NoListener
          /\ bpc = "returned" =>
                /\ bout[Len(bout)] = Exit(1)
                /\ Len(SelectSeq(bout, LAMBDA m : m.kind = "exit")) = 1

\* What the code does after a failed bind, whatever the error.
FailedBindEndsSession ==
    bindErr # "nil" =>
        /\ Cardinality(Called("net.Listen")) = 1
        /\ Called("s.mgr.Start") = {}
        /\ ln = NoListener
        /\ bpc = "returned" =>
              /\ Cardinality(Called("findAvailableAddr")) = 1
              /\ bout[Len(bout)] = Exit(1)
              /\ Len(SelectSeq(bout, LAMBDA m : m.kind = "exit")) = 1

\* ---------------------------------------------------------------------
\* C15: once Run has observed the completion signal, removed the entry and
\* returned, the first-run goroutine neither reads the run's process group
\* nor writes to the session's stderr: after the return of a session nothing
\* more is sent on its stream.
WatcherNeverOutlivesSession ==
    [][\A s \in Sessions :
          pc[s] = "returned" /\ runInstance[s] # NoRun =>
              /\ stream'[s] = stream[s]
              /\ ~(wpc[s] = "select" /\ wpc'[s] = "ended" /\ TimerCase(s))]_vars

\* ---------------------------------------------------------------------
\* Run while a forced upgrade is pending: s.availableUpdate() gives a version
\* with ForceUpgrade to every invocation that asks.

CheckUpgradeForced(s) ==
    /\ CheckUpgrade(s)
    /\ newVer'[s].present /\ newVer'[s].ForceUpgrade

NextForced ==
    \E s \in Sessions :
        \/ LoadConfig(s)
        \/ BeginTracing(s)
        \/ BindPort(s)
        \/ ResolveApp(s)
        \/ ResolveNamespace(s)
        \/ CheckUpgradeForced(s)
        \/ ForceUpgrade(s)
        \/ OsExit(s)

SpecForced == Init /\ [][NextForced]_vars

\* The calls Run makes before it asks for the available update.
BeforeGate == {"LoadConfig", "BeginTracing", "BindPort", "ResolveApp",
               "ResolveNamespace"}

\* C16: while a forced upgrade is pending no invocation binds the port,
\* resolves the app or the namespace, or ends as a failure of the session
\* alone.
GateBeforeBind ==
    \A s \in Sessions :
        /\ Count(calls[s], "BindPort") = 0
        /\ Count(calls[s], "ResolveApp") = 0
        /\ Count(calls[s], "ResolveNamespace") = 0
        /\ failedAt[s] = "none"
        /\ pc[s] # "returned"

\* C16 as the code has it: the gate comes after the configuration, the
\* tracer, the bind and the resolution of app and namespace, and before the
\* mutex and the start of the run.  A failure of an earlier step ends the
\* session alone, with one Exit(1); an invocation that reaches the gate has
\* made all five earlier calls, never locks the mutex, starts no run,
\* registers nothing, and ends in os.Exit.  No run is ever started.
GateAfterBindBeforeStart ==
    \A s \in Sessions :
        /\ Count(calls[s], "StartRun") = 0
        /\ runInstance[s] = NoRun
        /\ mu = NoSession
        /\ DOMAIN streams = {}
        /\ Count(calls[s], "CheckUpgrade") = 1 =>
              /\ calls[s] = <<"LoadConfig", "BeginTracing", "BindPort",
                              "ResolveApp", "ResolveNamespace", "CheckUpgrade">>
              /\ failedAt[s] = "none"
              /\ pc[s] \in {"ForceUpgrade", "OsExit", "exited"}
        /\ pc[s] \in {"OsExit", "exited"} =>
              Len(Exits(s)) = 1 /\ Exits(s)[1].code = 1
        /\ pc[s] = "exited" <=> exitedBy = s
        /\ pc[s] = "returned" =>
              /\ failedAt[s] \in BeforeGate
              /\ Count(calls[s], "CheckUpgrade") = 0
              /\ Len(Exits(s)) = 1 /\ Exits(s)[1].code = 1
              /\ exitedBy # s

\* One invocation ended at the failed bind with the daemon running, and a
\* later one bound its port, reached the gate and ended the daemon.
GateAfterBindBeforeStartWitness ==
    \E s, t \in Sessions :
        /\ pc[s] = "returned" /\ failedAt[s] = "BindPort"
        /\ pc[t] = "exited" /\ exitedBy = t
        /\ "ln" \in acquired[t]

\* ---------------------------------------------------------------------
\* Cancellation of the client's request.  Run takes ctx from the stream
\* (line 25) and hands it to s.mgr.Start (line 139); Run itself waits on
\* runInstance.Done() alone (line 260).  The run manager ends a run whose
\* context is cancelled: the cancellation closes runInstance.Done().

CancelSession == 1

Cancel(s) ==
    /\ Alive /\ pc[s] = "WaitDone" /\ ~done[s]
    /\ done' = [done EXCEPT ![s] = TRUE]
    /\ events' = [events EXCEPT ![s] = Append(@, "cancel")]
    /\ woken' = [woken EXCEPT ![s] =
                   IF wpc[s] = "select" /\ @ = "none" THEN "done" ELSE @]
    /\ UNCHANGED <<pc, stream, calls, failedAt, defers, acquired, closes, newVer,
                   upgradeErr, runInstance, mu, streams, nextID, exitedBy, wpc,
                   annVars, bindVars>>

NextCancel ==
    \/ Next
    \/ Cancel(CancelSession)

SpecCancel == Init /\ [][NextCancel]_vars

\* The session's run was started and Run has left the wait on Done.
PastWait(s) ==
    /\ runInstance[s] # NoRun
    /\ pc[s] \in {"CleanupLock", "CleanupDelete", "CleanupUnlock", "returned"}

StartReturnAnyID(s) == StartReturnID(s, 1 .. nextID)

NextDupID ==
    \E s \in Sessions :
        \/ LoadConfig(s)
        \/ BeginTracing(s)
        \/ BindPort(s)
        \/ ResolveApp(s)
        \/ ResolveNamespace(s)
        \/ CheckUpgrade(s)
        \/ ForceUpgrade(s)
        \/ OsExit(s)
        \/ Lock(s)
        \/ StartReturnAnyID(s)
        \/ UnlockFailed(s)
        \/ ReportStartErr(s)
        \/ Unlock(s)
        \/ Announce(s)
        \/ SpawnWatcher(s)
        \/ WaitDone(s)
        \/ CleanupLock(s)
        \/ CleanupDelete(s)
        \/ CleanupUnlock(s)
        \/ RunDone(s)

SpecDupID == Init /\ [][NextDupID]_vars

\* Session s registers / removes an entry in this step.
Registers(s) == pc[s] = "Start" /\ pc'[s] = "Unlock"
Removes(s) == pc[s] = "CleanupDelete" /\ pc'[s] = "CleanupUnlock"

\* C18: a registration under an ID that has an entry fails and leaves the
\* entry's sink as it was, and so an entry is only ever removed by the
\* Cleanup of the session whose sink it holds.
RegisterExistingFails ==
    [][\A id \in DOMAIN streams :
          /\ id \in DOMAIN streams' => streams'[id] = streams[id]
          /\ id \notin DOMAIN streams' => Removes(streams[id])]_vars

\* No two sessions have been given the same run ID.
UniqueIDs ==
    \A s, t \in Sessions :
        s # t /\ runInstance[s] # NoRun => runInstance[t] # runInstance[s]

\* C18 as the code has it: a registration never fails; it stores the
\* session's sink under the run's ID, replacing the sink of an entry already
\* there, and leaves every other entry alone; a Cleanup removes the entry
\* under its run's ID, whosever sink it holds, and no other.  As long as no
\* two sessions were given the same ID, every running session has exactly
\* its own entry.
RegistrationReplaces ==
    /\ [][\A s \in Sessions :
            /\ Registers(s) =>
                  /\ DOMAIN streams' = DOMAIN streams \cup {runInstance'[s]}
                  /\ streams'[runInstance'[s]] = s
                  /\ \A id \in DOMAIN streams \ {runInstance'[s]} :
                        streams'[id] = streams[id]
            /\ Removes(s) =>
                  /\ DOMAIN streams' = DOMAIN streams \ {runInstance[s]}
                  /\ \A id \in DOMAIN streams' : streams'[id] = streams[id]]_vars
    /\ [](UniqueIDs => \A s \in Running : EntriesOf(s) = {runInstance[s]})

\* Two running sessions were given the same ID and the entry holds the sink
\* of the later one.
RegistrationReplacesWitness ==
    \E s, t \in Sessions :
        /\ s # t
        /\ runInstance[s] # NoRun /\ runInstance[t] = runInstance[s]
        /\ pc[s] = "WaitDone" /\ pc[t] = "WaitDone"
        /\ DOMAIN streams = {runInstance[s]}
        /\ streams[runInstance[s]] = t

\* ---------------------------------------------------------------------
\* The statements of Run between a s.mu.Lock() and its s.mu.Unlock().
Critical == {"Start", "StartFailed", "Unlock", "CleanupDelete", "CleanupUnlock"}

\* C19: a session holds the mutex exactly between a Lock and the Unlock that
\* follows it on its path, so that every Unlock releases a mutex its session
\* holds and every Lock is followed by one Unlock; the mutex is not held by a
\* session that reports a failure or has sent its Exit message, that waits
\* on Done, or that has returned.
LockDiscipline ==
    \A s \in Sessions :
        /\ mu = s <=> pc[s] \in Critical
        /\ pc[s] \in {"ReportStartErr", "ForceUpgrade", "OsExit", "exited",
                      "WaitDone", "returned"} => mu # s
        /\ Len(Exits(s)) > 0 => mu # s

\* One session has returned after a failed Start while another is about to
\* unlock in its cleanup.
LockDisciplineWitness ==
    \E s, t \in Sessions :
        /\ pc[s] = "returned" /\ failedAt[s] = "StartRun" /\ Len(Exits(s)) = 1
        /\ pc[t] = "CleanupUnlock" /\ mu = t

\* ---------------------------------------------------------------------
\* Progress of the sessions.  The statements of one Run are executed in
\* order by one goroutine; the first-run goroutines play no part and are
\* left unscheduled.

RunStep(s) ==
    \/ LoadConfig(s)
    \/ BeginTracing(s)
    \/ BindPort(s)
    \/ ResolveApp(s)
    \/ ResolveNamespace(s)
    \/ CheckUpgrade(s)
    \/ ForceUpgrade(s)
    \/ OsExit(s)
    \/ Lock(s)
    \/ UnlockFailed(s)
    \/ ReportStartErr(s)
    \/ Unlock(s)
    \/ Announce(s)
    \/ SpawnWatcher(s)
    \/ WaitDone(s)
    \/ CleanupLock(s)
    \/ CleanupDelete(s)
    \/ CleanupUnlock(s)

NextRun ==
    \E s \in Sessions :
        \/ RunStep(s)
        \/ StartReturn(s)
        \/ RunDone(s)

\* The scheduler is fair to the goroutine of every Run; every call of
\* s.mgr.Start returns; the completion signal of every started run fires.
FairRun ==
    \A s \in Sessions :
        /\ WF_vars(RunStep(s))
        /\ WF_vars(StartReturn(s))
        /\ WF_vars(RunDone(s))

SpecFair == Init /\ [][NextRun]_vars /\ FairRun

AllReturned == \A s \in Sessions : pc[s] = "returned"

\* C20: under fair scheduling, with every Start returning and every
\* completion signal firing, every session eventually returns from Run and
\* the registry eventually becomes empty.
EverySessionReturns ==
    <>(AllReturned /\ DOMAIN streams = {})

\* C20 as the code has it: either every session returns and the registry
\* becomes empty, or a session on the forced-upgrade path ends the daemon
\* with os.Exit, after which no session returns.  And a Start that has not
\* returned keeps the mutex: as long as a session is inside Start, a session
\* whose completion signal has fired cannot take the mutex for its cleanup.
ReturnOrDaemonExit ==
    /\ <>((AllReturned /\ DOMAIN streams = {}) \/ exitedBy # NoSession)
    /\ [](exitedBy # NoSession => ~AllReturned)
    /\ [](\A s, t \in Sessions :
             (pc[s] = "Start" /\ pc[t] = "CleanupLock" /\ done[t]) => ~CanLock(t))

\* Every session has started a run, the runs have ended, every session has
\* returned and the registry is empty.
ReturnOrDaemonExitWitness ==
    /\ AllReturned
    /\ \A s \in Sessions : runInstance[s] # NoRun /\ done[s]
    /\ DOMAIN streams = {}
    /\ mu = NoSession
    /\ Alive

====
